---- MODULE Spec2Model ----
(***************************************************************************)
(* A model of the shortcut manager of src/main.py: the record list, the    *)
(* hotkey registry (hotkey_actions and the keyboard backend), the global   *)
(* show/hide hotkey, the settings file, the fractional priorities of the   *)
(* drag-and-drop reorder, and the hook thread with its debounce.           *)
(*                                                                         *)
(* Priorities are floats in the program.  Every priority the program can   *)
(* compute from 1.0 by +1.0, +0.5, -0.5, /2.0 and the mean of two is a     *)
(* dyadic rational, exact in a double; the model keeps a priority as an    *)
(* integer number of units of 1/Scale (Scale = 2^FracBits) and disables a  *)
(* step whose result would need a finer unit.                              *)
(***************************************************************************)
EXTENDS Integers, Sequences, FiniteSets, TLC

VARIABLES
    shortcuts,                        \* self.shortcuts: list of record dicts
    categories_order,                 \* self.categories_order
    hotkey_actions,                   \* self.hotkey_actions: hotkey -> url its callback opens
    global_show_window_hotkey_str,    \* self.global_show_window_hotkey_str
    is_global_show_hotkey_registered, \* self.is_global_show_hotkey_registered
    kb,                               \* handlers held by the keyboard library, oldest first
    file,                             \* the settings file: NoFile or the saved document
    next_id,                          \* how many ids uuid4 has handed out
    save_failures,                    \* how many save_data calls have failed so far
    now,                              \* time.time(), in units of 0.1 s
    last_global_hotkey_time,          \* self._last_global_hotkey_time
    queue,                            \* toggle signals emitted and not yet delivered
    executed,                         \* what the last callback run did, and on which thread
    trig,                             \* per binding: its last trigger events
    probe,                            \* the registry before a register/unregister pair
    window,                           \* the main window: "active", "inactive" or "hidden"
    lastOp                            \* the last operation and how it ended

vars == <<shortcuts, categories_order, hotkey_actions, global_show_window_hotkey_str,
          is_global_show_hotkey_registered, kb, file, next_id, save_failures,
          now, last_global_hotkey_time, queue, executed, trig, probe, window, lastOp>>

dataVars == <<shortcuts, categories_order, hotkey_actions, global_show_window_hotkey_str,
              is_global_show_hotkey_registered, kb, file, next_id, save_failures>>

hookVars == <<now, last_global_hotkey_time, queue, executed, trig, probe, window>>

----------------------------------------------------------------------------
(* Bounds of the model. *)

MaxShortcuts == 3      \* records in the list at once
MaxIds == 3            \* add_shortcut calls in a run (ids handed out)
MaxSaveFailures == 2   \* save_data calls that fail in a run
FracBits == 1          \* priorities are multiples of 1/2^FracBits
MaxPriority == 4       \* priorities above this are not explored
MaxTime == 8           \* the clock stops here (units of 0.1 s past StartTime)
MaxTrig == 2           \* trigger events recorded per binding
MaxQueue == 2          \* toggle signals waiting for the GUI thread
MaxHotkeyShortcuts == 2 \* records in the specifications of the hotkey side
MaxDocShortcuts == 2   \* records in a settings file read at start

----------------------------------------------------------------------------
(* Constants of the program. *)

DEFAULT_GLOBAL_HOTKEY == "ctrl+shift+x"
ALL_CATEGORY_NAME == "All"
ADD_CATEGORY_TAB_TEXT == " + "
CAT_GIBON == "gibon"       \* the default category of a fresh install
CAT_ILBAN == "ilban"       \* the fallback category of the dialogs
HOTKEY_DEBOUNCE_TIME == 3  \* 0.3 s in units of 0.1 s
EPSILON_DEN == 100000      \* epsilon = 0.00001 = 1 / EPSILON_DEN

(* The strings the hotkey input can deliver.  The keyboard library parses   *)
(* a string when it is registered and raises for one it cannot parse.       *)
HK_K == "ctrl+alt+k"
HK_J == "ctrl+alt+j"
HK_BAD == "ctrl+?"
NO_HOTKEY == ""
Hotkeys == {DEFAULT_GLOBAL_HOTKEY, HK_K, HK_J, HK_BAD}
BadHotkeys == {HK_BAD}

Urls == {"http://a", "http://b"}
TOGGLE == "toggle"         \* the action of the global handler

NoFile == [exists |-> FALSE]

Scale == 2 ^ FracBits
ONE == Scale               \* 1.0
HALF == Scale \div 2       \* 0.5

Abs(x) == IF x < 0 THEN 0 - x ELSE x

(* abs(d) < epsilon, d in units of 1/Scale: d/Scale < 1/EPSILON_DEN. *)
WithinEpsilon(d) == Abs(d) <= (Scale - 1) \div EPSILON_DEN

----------------------------------------------------------------------------
(* Lists. *)

InsertAt(s, k, x) == SubSeq(s, 1, k - 1) \o <<x>> \o SubSeq(s, k, Len(s))

Range(s) == {s[i] : i \in 1..Len(s)}

(* list.sort(key=priority): a stable sort, ascending. *)
RECURSIVE InsertSorted(_, _)
InsertSorted(sorted, x) ==
    IF sorted = << >> THEN <<x>>
    ELSE IF x.priority < Head(sorted).priority
         THEN <<x>> \o sorted
         ELSE <<Head(sorted)>> \o InsertSorted(Tail(sorted), x)

RECURSIVE SortByPriority(_)
SortByPriority(s) ==
    IF s = << >> THEN << >>
    ELSE InsertSorted(SortByPriority(SubSeq(s, 1, Len(s) - 1)), s[Len(s)])

MaxOf(S) == CHOOSE x \in S : \A y \in S : y <= x

(* The categories a user may pick or drop on: no reserved tab names. *)
NotReserved(c) == c \notin {ALL_CATEGORY_NAME, ADD_CATEGORY_TAB_TEXT}

UserCats(cats) == SelectSeq(cats, NotReserved)

----------------------------------------------------------------------------
(* The keyboard library: keyboard.add_hotkey appends a handler and raises   *)
(* for a string it cannot parse; keyboard.remove_hotkey(string) removes the *)
(* handler registered last under the string and raises when there is none.  *)

KbAccepts(h) == h \notin BadHotkeys

KbHas(k, h) == \E i \in 1..Len(k) : k[i].hk = h

KbAdd(k, h, act) == Append(k, [hk |-> h, act |-> act])

KbRemove(k, h) ==
    LET i == MaxOf({j \in 1..Len(k) : k[j].hk = h})
    IN  SubSeq(k, 1, i - 1) \o SubSeq(k, i + 1, Len(k))

KbCount(k, h) == Cardinality({i \in 1..Len(k) : k[i].hk = h})

EmptyMap == [h \in {} |-> ""]

MapPut(m, h, u) == [x \in DOMAIN m \cup {h} |-> IF x = h THEN u ELSE m[x]]

MapDel(m, h) == [x \in DOMAIN m \ {h} |-> m[x]]

----------------------------------------------------------------------------
(* The item-hotkey registry. *)

(* The registration that writes the map before it calls the backend, so    *)
(* that a rejected string stays in the map.                                 *)
register_item_hotkey_KeepsRejected(sc, ha, k, g) ==
    IF sc.hotkey = NO_HOTKEY \/ sc.url = ""
    THEN [ha |-> ha, kb |-> k]
    ELSE IF sc.hotkey \in DOMAIN ha
    THEN [ha |-> ha, kb |-> k]
    ELSE IF sc.hotkey = g /\ g # NO_HOTKEY
    THEN [ha |-> ha, kb |-> k]
    ELSE IF KbAccepts(sc.hotkey)
    THEN [ha |-> MapPut(ha, sc.hotkey, sc.url), kb |-> KbAdd(k, sc.hotkey, sc.url)]
    ELSE [ha |-> MapPut(ha, sc.hotkey, sc.url), kb |-> k]

(* The registration without its look at the global hotkey. *)
register_item_hotkey_NoGlobalCheck(sc, ha, k, g) ==
    IF sc.hotkey = NO_HOTKEY \/ sc.url = ""
    THEN [ha |-> ha, kb |-> k]
    ELSE IF sc.hotkey \in DOMAIN ha
    THEN [ha |-> ha, kb |-> k]
    ELSE IF KbAccepts(sc.hotkey)
    THEN [ha |-> MapPut(ha, sc.hotkey, sc.url), kb |-> KbAdd(k, sc.hotkey, sc.url)]
    ELSE [ha |-> ha, kb |-> k]

(* The registration without its skip of a string that is already bound. *)
register_item_hotkey_NoSkip(sc, ha, k, g) ==
    IF sc.hotkey = NO_HOTKEY \/ sc.url = ""
    THEN [ha |-> ha, kb |-> k]
    ELSE IF sc.hotkey = g /\ g # NO_HOTKEY
    THEN [ha |-> ha, kb |-> k]
    ELSE IF KbAccepts(sc.hotkey)
    THEN [ha |-> MapPut(ha, sc.hotkey, sc.url), kb |-> KbAdd(k, sc.hotkey, sc.url)]
    ELSE [ha |-> ha, kb |-> k]

(* register_item_hotkey(sc_data), on registry state (ha, k) with global g. *)
register_item_hotkey(sc, ha, k, g) ==
    IF sc.hotkey = NO_HOTKEY \/ sc.url = ""
    THEN [ha |-> ha, kb |-> k]
    ELSE IF sc.hotkey \in DOMAIN ha
    THEN [ha |-> ha, kb |-> k]
    ELSE IF sc.hotkey = g /\ g # NO_HOTKEY
    THEN [ha |-> ha, kb |-> k]
    ELSE IF KbAccepts(sc.hotkey)
    THEN [ha |-> MapPut(ha, sc.hotkey, sc.url), kb |-> KbAdd(k, sc.hotkey, sc.url)]
    ELSE [ha |-> ha, kb |-> k]

(* The removal that forgets the backend. *)
unregister_hotkey_MapOnly(h, ha, k) ==
    IF h = NO_HOTKEY \/ h \notin DOMAIN ha
    THEN [ha |-> ha, kb |-> k]
    ELSE [ha |-> MapDel(ha, h), kb |-> k]

(* unregister_hotkey(hotkey_str). *)
unregister_hotkey(h, ha, k) ==
    IF h = NO_HOTKEY \/ h \notin DOMAIN ha
    THEN [ha |-> ha, kb |-> k]
    ELSE [ha |-> MapDel(ha, h),
          kb |-> IF KbHas(k, h) THEN KbRemove(k, h) ELSE k]

RECURSIVE UnregisterKeys(_, _, _)
UnregisterKeys(keys, ha, k) ==
    IF keys = {} THEN [ha |-> ha, kb |-> k]
    ELSE LET h == CHOOSE x \in keys : TRUE
             r == unregister_hotkey(h, ha, k)
         IN  UnregisterKeys(keys \ {h}, r.ha, r.kb)

RECURSIVE RegisterEach(_, _, _, _)
RegisterEach(scs, ha, k, g) ==
    IF scs = << >> THEN [ha |-> ha, kb |-> k]
    ELSE LET r == register_item_hotkey(Head(scs), ha, k, g)
         IN  RegisterEach(Tail(scs), r.ha, r.kb, g)

(* The reconcile that clears the map and leaves the old handlers in the     *)
(* backend.                                                                 *)
register_all_item_hotkeys_NoUnregister(scs, ha, k, g) ==
    RegisterEach(scs, EmptyMap, k, g)

(* register_all_item_hotkeys(). *)
register_all_item_hotkeys(scs, ha, k, g) ==
    LET u == UnregisterKeys(DOMAIN ha, ha, k)
    IN  RegisterEach(scs, EmptyMap, u.kb, g)

(* register_new_global_show_window_hotkey(): ok is its return value. *)
register_new_global_show_window_hotkey(g, k) ==
    IF g # NO_HOTKEY
    THEN IF KbAccepts(g)
         THEN [ok |-> TRUE, reg |-> TRUE, kb |-> KbAdd(k, g, TOGGLE)]
         ELSE [ok |-> FALSE, reg |-> FALSE, kb |-> k]
    ELSE [ok |-> TRUE, reg |-> FALSE, kb |-> k]

(* The unregistration that acts for the empty string only. *)
unregister_current_global_show_window_hotkey_WhenEmpty(g, reg, k) ==
    IF g = NO_HOTKEY
    THEN [reg |-> FALSE, kb |-> k]
    ELSE [reg |-> reg, kb |-> k]

(* The unregistration that clears the flag and leaves the handler in the    *)
(* backend.                                                                 *)
unregister_current_global_show_window_hotkey_FlagOnly(g, reg, k) ==
    [reg |-> FALSE, kb |-> k]

(* unregister_current_global_show_window_hotkey(). *)
unregister_current_global_show_window_hotkey(g, reg, k) ==
    IF reg /\ g # NO_HOTKEY
    THEN [reg |-> FALSE, kb |-> IF KbHas(k, g) THEN KbRemove(k, g) ELSE k]
    ELSE IF g = NO_HOTKEY
    THEN [reg |-> FALSE, kb |-> k]
    ELSE [reg |-> reg, kb |-> k]

----------------------------------------------------------------------------
(* The settings file. *)

Doc(cats, scs, g) ==
    [exists |-> TRUE, categories_order |-> cats, shortcuts |-> scs,
     global_show_window_hotkey |-> g]

SaveOutcomes == {"ok", "mkdir_fail", "write_fail"}

(* The save that, when it fails, puts the list back to what the file holds. *)
save_data_RollsBack(scs, cats, g, f, outcome) ==
    IF outcome = "ok"
    THEN [shortcuts |-> SortByPriority(scs),
          file |-> Doc(UserCats(cats), SortByPriority(scs), g)]
    ELSE [shortcuts |-> IF f.exists THEN f.shortcuts ELSE << >>, file |-> f]

(* save_data(): the list is sorted in place before the write is tried; a    *)
(* failure to create the data folder returns before the sort.               *)
save_data(scs, cats, g, f, outcome) ==
    IF outcome = "mkdir_fail"
    THEN [shortcuts |-> scs, file |-> f]
    ELSE IF outcome = "write_fail"
    THEN [shortcuts |-> SortByPriority(scs), file |-> f]
    ELSE [shortcuts |-> SortByPriority(scs),
          file |-> Doc(UserCats(cats), SortByPriority(scs), g)]

(* load_specific_setting("global_show_window_hotkey", "ctrl+shift+x"). *)
load_specific_setting(f) ==
    IF f.exists THEN f.global_show_window_hotkey ELSE DEFAULT_GLOBAL_HOTKEY

(* A save may fail while the bound on failures allows; the data folder can  *)
(* be missing only while no settings file exists.                           *)
SaveAllowed(outcome) ==
    \/ outcome = "ok"
    \/ outcome = "write_fail" /\ save_failures < MaxSaveFailures
    \/ outcome = "mkdir_fail" /\ save_failures < MaxSaveFailures /\ ~file.exists

Failures(outcome) == IF outcome = "ok" THEN save_failures ELSE save_failures + 1

----------------------------------------------------------------------------
(* Records and views. *)

Rec(id, url, hotkey, category, priority) ==
    [id |-> id, url |-> url, hotkey |-> hotkey, category |-> category,
     priority |-> priority]

Ids(scs) == {scs[i].id : i \in 1..Len(scs)}

IndexOfId(scs, id) == CHOOSE i \in 1..Len(scs) : scs[i].id = id

ById(scs, id) == scs[IndexOfId(scs, id)]

IdsOf(scs) == [i \in 1..Len(scs) |-> scs[i].id]

(* populate_list_for_current_tab(): the records a tab shows, in its order. *)
ViewItems(scs, tab) ==
    SortByPriority(IF tab = ALL_CATEGORY_NAME THEN scs
                   ELSE SelectSeq(scs, LAMBDA sc : sc.category = tab))

(* The tabs that hold a list: "All" and one per category. *)
Tabs(cats) == {ALL_CATEGORY_NAME} \cup Range(cats)

(* The categories the shortcut dialog offers. *)
DialogCats(cats) ==
    IF UserCats(cats) # << >> THEN Range(UserCats(cats)) ELSE {CAT_ILBAN}

NoProbe == [h |-> NO_HOTKEY, ha |-> EmptyMap, kb |-> << >>]

Op(op, res) == [op |-> op, res |-> res, id |-> 0, k |-> 0, arr |-> << >>]

----------------------------------------------------------------------------
(* Construction: __init__ and load_data_and_register_hotkeys(). *)

StartTime == HOTKEY_DEBOUNCE_TIME + 1   \* the clock reads far more than 0.3 s

LoadedCats(f) ==
    LET cats == IF f.exists THEN f.categories_order ELSE << >>
        scs == IF f.exists THEN f.shortcuts ELSE << >>
    IN  UserCats(IF cats = << >> /\ scs = << >> THEN <<CAT_GIBON>> ELSE cats)

InitFrom(f) ==
    LET scs == IF f.exists THEN f.shortcuts ELSE << >>
        g == IF f.exists THEN f.global_show_window_hotkey ELSE DEFAULT_GLOBAL_HOTKEY
        items == register_all_item_hotkeys(scs, EmptyMap, << >>, g)
        glob == register_new_global_show_window_hotkey(g, items.kb)
    IN  /\ shortcuts = scs
        /\ categories_order = LoadedCats(f)
        /\ global_show_window_hotkey_str = g
        /\ hotkey_actions = items.ha
        /\ is_global_show_hotkey_registered = glob.reg
        /\ kb = glob.kb
        /\ file = f
        /\ next_id = Len(scs)
        /\ save_failures = 0
        /\ now = StartTime
        /\ last_global_hotkey_time = 0
        /\ queue = 0
        /\ executed = [act |-> "", thread |-> ""]
        /\ trig = [h \in Hotkeys |-> << >>]
        /\ probe = NoProbe
        /\ window = "active"
        /\ lastOp = Op("init", "done")

(* A fresh install: no settings file. *)
Init == InitFrom(NoFile)

----------------------------------------------------------------------------
(* The operations of the window, each a whole handler. *)

HotkeyTaken(scs, hk) == \E i \in 1..Len(scs) : scs[i].hotkey = hk

HotkeyTakenByOther(scs, hk, id) ==
    \E i \in 1..Len(scs) : scs[i].hotkey = hk /\ scs[i].id # id

IsGlobalHotkey(hk) ==
    hk = global_show_window_hotkey_str /\ global_show_window_hotkey_str # NO_HOTKEY

(* The hotkey conflict check of add_shortcut. *)
AddConflict(scs, hk) ==
    hk # NO_HOTKEY /\ (HotkeyTaken(scs, hk) \/ IsGlobalHotkey(hk))

(* The check without its look at the other records. *)
EditConflict_GlobalOnly(scs, orig, hk) ==
    hk # NO_HOTKEY /\ hk # orig.hotkey /\ IsGlobalHotkey(hk)

(* The hotkey conflict check of edit_shortcut. *)
EditConflict(scs, orig, hk) ==
    /\ hk # NO_HOTKEY
    /\ hk # orig.hotkey
    /\ (HotkeyTakenByOther(scs, hk, orig.id) \/ IsGlobalHotkey(hk))

(* max(priority of sc for sc in self.shortcuts), 0.0 for the empty list. *)
MaxPriorityOf(scs) ==
    IF scs = << >> THEN 0 ELSE MaxOf({scs[i].priority : i \in 1..Len(scs)})

WithIlban(cats, chosen) ==
    IF chosen = CAT_ILBAN /\ CAT_ILBAN \notin Range(cats)
    THEN Append(cats, CAT_ILBAN) ELSE cats

(* What follows the change of the record list in add, edit and delete:      *)
(* save_data(), then register_all_item_hotkeys().                           *)
SaveAndRegister(scs, cats, outcome) ==
    LET sv == save_data(scs, cats, global_show_window_hotkey_str, file, outcome)
        r == register_all_item_hotkeys(sv.shortcuts, hotkey_actions, kb,
                                       global_show_window_hotkey_str)
    IN  /\ shortcuts' = sv.shortcuts
        /\ categories_order' = cats
        /\ file' = sv.file
        /\ hotkey_actions' = r.ha
        /\ kb' = r.kb
        /\ save_failures' = Failures(outcome)

add_shortcut(hk, url, cat, outcome) ==
    /\ Len(shortcuts) < MaxShortcuts
    /\ next_id < MaxIds
    /\ cat \in DialogCats(categories_order)
    /\ MaxPriorityOf(shortcuts) + ONE <= MaxPriority * Scale
    /\ SaveAllowed(outcome)
    /\ LET new_data == Rec(next_id + 1, url, hk, cat, MaxPriorityOf(shortcuts) + ONE)
       IN  IF AddConflict(shortcuts, hk)
           THEN /\ outcome = "ok"
                /\ lastOp' = Op("add", "rejected")
                /\ UNCHANGED dataVars
           ELSE /\ SaveAndRegister(Append(shortcuts, new_data),
                                   WithIlban(categories_order, cat), outcome)
                /\ next_id' = next_id + 1
                /\ lastOp' = Op("add", "done")
                /\ UNCHANGED <<global_show_window_hotkey_str,
                               is_global_show_hotkey_registered>>
    /\ UNCHANGED hookVars

(* The edit that stores the dialog's record without the original priority:  *)
(* a record without one sorts behind every priority.                        *)
edit_shortcut_DropsPriority(id, hk, url, cat, outcome) ==
    /\ id \in Ids(shortcuts)
    /\ cat \in DialogCats(categories_order)
    /\ SaveAllowed(outcome)
    /\ LET orig == ById(shortcuts, id)
           new_data == Rec(id, url, hk, cat, MaxPriority * Scale + ONE)
       IN  IF EditConflict(shortcuts, orig, hk)
           THEN /\ outcome = "ok"
                /\ lastOp' = Op("edit", "rejected")
                /\ UNCHANGED dataVars
           ELSE /\ SaveAndRegister(
                       [shortcuts EXCEPT ![IndexOfId(shortcuts, id)] = new_data],
                       WithIlban(categories_order, cat), outcome)
                /\ lastOp' = Op("edit", "done")
                /\ UNCHANGED <<global_show_window_hotkey_str,
                               is_global_show_hotkey_registered, next_id>>
    /\ UNCHANGED hookVars

edit_shortcut(id, hk, url, cat, outcome) ==
    /\ id \in Ids(shortcuts)
    /\ cat \in DialogCats(categories_order)
    /\ SaveAllowed(outcome)
    /\ LET orig == ById(shortcuts, id)
           new_data == Rec(id, url, hk, cat, orig.priority)
       IN  IF EditConflict(shortcuts, orig, hk)
           THEN /\ outcome = "ok"
                /\ lastOp' = Op("edit", "rejected")
                /\ UNCHANGED dataVars
           ELSE /\ SaveAndRegister(
                       [shortcuts EXCEPT ![IndexOfId(shortcuts, id)] = new_data],
                       WithIlban(categories_order, cat), outcome)
                /\ lastOp' = Op("edit", "done")
                /\ UNCHANGED <<global_show_window_hotkey_str,
                               is_global_show_hotkey_registered, next_id>>
    /\ UNCHANGED hookVars

delete_shortcut(id, outcome) ==
    /\ id \in Ids(shortcuts)
    /\ SaveAllowed(outcome)
    /\ SaveAndRegister(SelectSeq(shortcuts, LAMBDA s : s.id # id),
                       categories_order, outcome)
    /\ lastOp' = Op("delete", "done")
    /\ UNCHANGED <<global_show_window_hotkey_str, is_global_show_hotkey_registered,
                   next_id>>
    /\ UNCHANGED hookVars

move_shortcut_to_category(id, cat, outcome) ==
    /\ id \in Ids(shortcuts)
    /\ cat \in Range(UserCats(categories_order))
    /\ SaveAllowed(outcome)
    /\ LET moved == [shortcuts EXCEPT ![IndexOfId(shortcuts, id)].category = cat]
           sv == save_data(moved, categories_order, global_show_window_hotkey_str,
                           file, outcome)
       IN  /\ shortcuts' = sv.shortcuts
           /\ file' = sv.file
    /\ save_failures' = Failures(outcome)
    /\ lastOp' = Op("move", "done")
    /\ UNCHANGED <<categories_order, hotkey_actions, kb, next_id,
                   global_show_window_hotkey_str, is_global_show_hotkey_registered>>
    /\ UNCHANGED hookVars

(* The dialog that takes a name the list already has. *)
add_category_NoDuplicateCheck(name, outcome) ==
    /\ name \notin {ALL_CATEGORY_NAME, ADD_CATEGORY_TAB_TEXT}
    /\ SaveAllowed(outcome)
    /\ LET sv == save_data(shortcuts, Append(categories_order, name),
                           global_show_window_hotkey_str, file, outcome)
       IN  /\ shortcuts' = sv.shortcuts
           /\ file' = sv.file
    /\ categories_order' = Append(categories_order, name)
    /\ save_failures' = Failures(outcome)
    /\ lastOp' = Op("add_category", "done")
    /\ UNCHANGED <<hotkey_actions, kb, next_id, global_show_window_hotkey_str,
                   is_global_show_hotkey_registered>>
    /\ UNCHANGED hookVars

add_category(name, outcome) ==
    /\ name \notin {ALL_CATEGORY_NAME, ADD_CATEGORY_TAB_TEXT}
    /\ name \notin Range(categories_order)
    /\ SaveAllowed(outcome)
    /\ LET sv == save_data(shortcuts, Append(categories_order, name),
                           global_show_window_hotkey_str, file, outcome)
       IN  /\ shortcuts' = sv.shortcuts
           /\ file' = sv.file
    /\ categories_order' = Append(categories_order, name)
    /\ save_failures' = Failures(outcome)
    /\ lastOp' = Op("add_category", "done")
    /\ UNCHANGED <<hotkey_actions, kb, next_id, global_show_window_hotkey_str,
                   is_global_show_hotkey_registered>>
    /\ UNCHANGED hookVars

(* The dialog without its look at the records. *)
GlobalDialogConflict_NoCheck(scs, new_hotkey) == FALSE

(* GlobalHotkeySettingsDialog.try_save: a non-empty string a record holds   *)
(* is refused.                                                              *)
GlobalDialogConflict(scs, new_hotkey) ==
    new_hotkey # NO_HOTKEY /\ HotkeyTaken(scs, new_hotkey)

open_global_hotkey_settings_dialog(new_hotkey, outcome) ==
    /\ SaveAllowed(outcome)
    /\ IF GlobalDialogConflict(shortcuts, new_hotkey)
       THEN /\ outcome = "ok"
            /\ lastOp' = Op("global", "rejected")
            /\ UNCHANGED dataVars
       ELSE IF new_hotkey = global_show_window_hotkey_str
       THEN /\ outcome = "ok"
            /\ lastOp' = Op("global", "same")
            /\ UNCHANGED dataVars
       ELSE LET u == unregister_current_global_show_window_hotkey(
                         global_show_window_hotkey_str,
                         is_global_show_hotkey_registered, kb)
                r == register_new_global_show_window_hotkey(new_hotkey, u.kb)
            IN  IF r.ok
                THEN LET sv == save_data(shortcuts, categories_order, new_hotkey,
                                         file, outcome)
                     IN  /\ global_show_window_hotkey_str' = new_hotkey
                         /\ is_global_show_hotkey_registered' = r.reg
                         /\ kb' = r.kb
                         /\ shortcuts' = sv.shortcuts
                         /\ file' = sv.file
                         /\ save_failures' = Failures(outcome)
                         /\ lastOp' = Op("global", "done")
                         /\ UNCHANGED <<categories_order, hotkey_actions, next_id>>
                ELSE LET previous_valid_hotkey == load_specific_setting(file)
                         r2 == register_new_global_show_window_hotkey(
                                   previous_valid_hotkey, r.kb)
                     IN  /\ outcome = "ok"
                         /\ global_show_window_hotkey_str' = previous_valid_hotkey
                         /\ is_global_show_hotkey_registered' = r2.reg
                         /\ kb' = r2.kb
                         /\ lastOp' = Op("global", "reverted")
                         /\ UNCHANGED <<shortcuts, categories_order, hotkey_actions,
                                        file, next_id, save_failures>>
    /\ UNCHANGED hookVars

----------------------------------------------------------------------------
(* The drag-and-drop reorder. *)

(* x / 2.0, when the half is a multiple of the unit. *)
Exact(x) == x % 2 = 0

Half(x) == x \div 2

(* The priority on_shortcut_item_reordered computes for the item at row k   *)
(* (from 0) of the view `arr`, the list as the drop left it: ok is FALSE    *)
(* when the value is not a multiple of the unit.                            *)
FirstPriority(priority_after) ==
    IF Half(priority_after) > 0 THEN Half(priority_after)
    ELSE IF priority_after - HALF > 0 THEN priority_after - HALF
    ELSE 0

(* The computation that gives a record dropped last its predecessor's       *)
(* priority plus 0.5.                                                       *)
BasePriority_LastPlusHalf(arr, k) ==
    LET n == Len(arr)
    IN  IF n = 1 THEN [ok |-> TRUE, v |-> ONE]
        ELSE IF k = 0
        THEN [ok |-> Exact(arr[2].priority) /\ FirstPriority(arr[2].priority) > 0,
              v |-> FirstPriority(arr[2].priority)]
        ELSE IF k = n - 1
        THEN [ok |-> TRUE, v |-> arr[n - 1].priority + HALF]
        ELSE [ok |-> Exact(arr[k].priority + arr[k + 2].priority),
              v |-> Half(arr[k].priority + arr[k + 2].priority)]

(* The computation that gives a record dropped first its successor's        *)
(* priority minus 1.0.                                                      *)
BasePriority_FirstMinusOne(arr, k) ==
    LET n == Len(arr)
    IN  IF n = 1 THEN [ok |-> TRUE, v |-> ONE]
        ELSE IF k = 0
        THEN [ok |-> TRUE, v |-> arr[2].priority - ONE]
        ELSE IF k = n - 1
        THEN [ok |-> TRUE, v |-> arr[n - 1].priority + ONE]
        ELSE [ok |-> Exact(arr[k].priority + arr[k + 2].priority),
              v |-> Half(arr[k].priority + arr[k + 2].priority)]

BasePriority(arr, k) ==
    LET n == Len(arr)
    IN  IF n = 1 THEN [ok |-> TRUE, v |-> ONE]
        ELSE IF k = 0
        THEN [ok |-> Exact(arr[2].priority) /\ FirstPriority(arr[2].priority) > 0,
              v |-> FirstPriority(arr[2].priority)]
        ELSE IF k = n - 1
        THEN [ok |-> TRUE, v |-> arr[n - 1].priority + ONE]
        ELSE [ok |-> Exact(arr[k].priority + arr[k + 2].priority),
              v |-> Half(arr[k].priority + arr[k + 2].priority)]

Conflict(arr, k, new_priority) ==
    \/ k > 0 /\ WithinEpsilon(new_priority - arr[k].priority)
    \/ k < Len(arr) - 1 /\ WithinEpsilon(new_priority - arr[k + 2].priority)

Nudged(arr, k) ==
    IF k > 0 THEN [ok |-> TRUE, v |-> arr[k].priority + HALF]
    ELSE IF Len(arr) > 1
    THEN IF arr[k + 2].priority - HALF > 0
         THEN [ok |-> TRUE, v |-> arr[k + 2].priority - HALF]
         ELSE [ok |-> Exact(arr[k + 2].priority), v |-> Half(arr[k + 2].priority)]
    ELSE [ok |-> TRUE, v |-> ONE]

NewPriority(arr, k) ==
    LET base == BasePriority(arr, k)
    IN  IF base.ok /\ Conflict(arr, k, base.v) THEN Nudged(arr, k) ELSE base

(* The view after the drop: the item with `id` taken out and put at row k. *)
Dropped(view, id, k) ==
    InsertAt(SelectSeq(view, LAMBDA s : s.id # id), k + 1, ById(view, id))

(* The reorder that numbers the whole view again, 1.0, 2.0, ... in the      *)
(* order the drop left.                                                     *)
on_shortcut_item_reordered_Renumber(tab, id, k, outcome) ==
    /\ tab \in Tabs(categories_order)
    /\ SaveAllowed(outcome)
    /\ LET view == ViewItems(shortcuts, tab)
       IN  /\ id \in Ids(view)
           /\ k \in 0..(Len(view) - 1)
           /\ LET arr == Dropped(view, id, k)
                  row(x) == CHOOSE r \in 1..Len(arr) : arr[r].id = x
                  updated == [i \in 1..Len(shortcuts) |->
                                 IF shortcuts[i].id \in Ids(arr)
                                 THEN [shortcuts[i] EXCEPT
                                          !.priority = row(shortcuts[i].id) * ONE]
                                 ELSE shortcuts[i]]
                  sv == save_data(updated, categories_order,
                                  global_show_window_hotkey_str, file, outcome)
              IN  /\ shortcuts' = sv.shortcuts
                  /\ file' = sv.file
                  /\ lastOp' = [op |-> "reorder", res |-> tab, id |-> id, k |-> k,
                                arr |-> IdsOf(arr)]
    /\ save_failures' = Failures(outcome)
    /\ UNCHANGED <<categories_order, hotkey_actions, kb, next_id,
                   global_show_window_hotkey_str, is_global_show_hotkey_registered>>
    /\ UNCHANGED hookVars

on_shortcut_item_reordered(tab, id, k, outcome) ==
    /\ tab \in Tabs(categories_order)
    /\ SaveAllowed(outcome)
    /\ LET view == ViewItems(shortcuts, tab)
       IN  /\ id \in Ids(view)
           /\ k \in 0..(Len(view) - 1)
           /\ LET arr == Dropped(view, id, k)
                  np == NewPriority(arr, k)
                  updated == [shortcuts EXCEPT
                                 ![IndexOfId(shortcuts, id)].priority = np.v]
                  sv == save_data(updated, categories_order,
                                  global_show_window_hotkey_str, file, outcome)
              IN  /\ np.ok
                  /\ np.v <= MaxPriority * Scale
                  /\ shortcuts' = sv.shortcuts
                  /\ file' = sv.file
                  /\ lastOp' = [op |-> "reorder", res |-> tab, id |-> id, k |-> k,
                                arr |-> IdsOf(arr)]
    /\ save_failures' = Failures(outcome)
    /\ UNCHANGED <<categories_order, hotkey_actions, kb, next_id,
                   global_show_window_hotkey_str, is_global_show_hotkey_registered>>
    /\ UNCHANGED hookVars

----------------------------------------------------------------------------
(* The hook thread of the keyboard library and the GUI thread. *)

(* The last MaxTrig trigger events of a binding, oldest first. *)
Recorded(events, e) ==
    LET all == Append(events, e)
    IN  IF Len(all) > MaxTrig THEN SubSeq(all, Len(all) - MaxTrig + 1, Len(all))
        ELSE all

Tick ==
    /\ now < StartTime + MaxTime
    /\ now' = now + 1
    /\ UNCHANGED <<dataVars, last_global_hotkey_time, queue, executed, trig, probe,
                   window, lastOp>>

(* The callback that stamps every trigger, the dropped ones too. *)
on_global_show_hotkey_triggered_StampsDropped(i) ==
    /\ i \in 1..Len(kb)
    /\ kb[i].act = TOGGLE
    /\ queue < MaxQueue
    /\ IF now - last_global_hotkey_time > HOTKEY_DEBOUNCE_TIME
       THEN /\ queue' = queue + 1
            /\ trig' = [trig EXCEPT ![kb[i].hk] =
                            Recorded(@, [t |-> now, fwd |-> TRUE])]
       ELSE /\ trig' = [trig EXCEPT ![kb[i].hk] =
                            Recorded(@, [t |-> now, fwd |-> FALSE])]
            /\ UNCHANGED queue
    /\ last_global_hotkey_time' = now
    /\ executed' = [act |-> "emit", thread |-> "hook"]
    /\ lastOp' = Op("trigger_global", "done")
    /\ UNCHANGED dataVars
    /\ UNCHANGED <<now, probe, window>>

(* _on_global_show_hotkey_triggered(), run by the hook thread for a handler *)
(* of the global hotkey.                                                    *)
on_global_show_hotkey_triggered(i) ==
    /\ i \in 1..Len(kb)
    /\ kb[i].act = TOGGLE
    /\ queue < MaxQueue
    /\ IF now - last_global_hotkey_time > HOTKEY_DEBOUNCE_TIME
       THEN /\ last_global_hotkey_time' = now
            /\ queue' = queue + 1
            /\ trig' = [trig EXCEPT ![kb[i].hk] =
                            Recorded(@, [t |-> now, fwd |-> TRUE])]
       ELSE /\ trig' = [trig EXCEPT ![kb[i].hk] =
                            Recorded(@, [t |-> now, fwd |-> FALSE])]
            /\ UNCHANGED <<last_global_hotkey_time, queue>>
    /\ executed' = [act |-> "emit", thread |-> "hook"]
    /\ lastOp' = Op("trigger_global", "done")
    /\ UNCHANGED dataVars
    /\ UNCHANGED <<now, probe, window>>

(* The callback register_item_hotkey hands to keyboard.add_hotkey, run by   *)
(* the hook thread: lambda u=url_to_open: webbrowser.open(u).               *)
item_callback(i) ==
    /\ i \in 1..Len(kb)
    /\ kb[i].act # TOGGLE
    /\ executed' = [act |-> kb[i].act, thread |-> "hook"]
    /\ trig' = [trig EXCEPT ![kb[i].hk] = Recorded(@, [t |-> now, fwd |-> TRUE])]
    /\ lastOp' = Op("trigger_item", "done")
    /\ UNCHANGED dataVars
    /\ UNCHANGED <<now, last_global_hotkey_time, queue, probe, window>>

(* What the slot does to the window: a window that is visible and has the   *)
(* focus is hidden; any other is shown and asked to take the focus, which   *)
(* the desktop grants or not.  A minimized window is treated as a hidden    *)
(* one.                                                                     *)
Toggled(w) == IF w = "active" THEN {"hidden"} ELSE {"active", "inactive"}

(* _execute_toggle_window_visibility_gui_thread(), the slot of the signal,  *)
(* run by the GUI thread's event loop.                                      *)
execute_toggle_window_visibility_gui_thread ==
    /\ queue > 0
    /\ queue' = queue - 1
    /\ window' \in Toggled(window)
    /\ executed' = [act |-> TOGGLE, thread |-> "gui"]
    /\ lastOp' = Op("toggle", "done")
    /\ UNCHANGED dataVars
    /\ UNCHANGED <<now, last_global_hotkey_time, trig, probe>>

----------------------------------------------------------------------------
(* Specifications. *)

(* The hotkey side: every operation that reads or writes a hotkey or the   *)
(* record list, from a fresh install; every save succeeds.                  *)
HotkeyInputs == {DEFAULT_GLOBAL_HOTKEY, HK_K, HK_BAD, NO_HOTKEY}

NextHotkey ==
    \/ \E hk \in HotkeyInputs :
          /\ Len(shortcuts) < MaxHotkeyShortcuts
          /\ add_shortcut(hk, "http://a", CAT_GIBON, "ok")
    \/ \E id \in 1..MaxIds, hk \in HotkeyInputs :
          edit_shortcut(id, hk, "http://a", CAT_GIBON, "ok")
    \/ \E id \in 1..MaxIds : delete_shortcut(id, "ok")
    \/ \E hk \in HotkeyInputs : open_global_hotkey_settings_dialog(hk, "ok")
    \/ \E id \in 1..MaxIds : move_shortcut_to_category(id, CAT_GIBON, "ok")
    \/ \E id \in 1..MaxIds, k \in 0..(MaxShortcuts - 1) :
          on_shortcut_item_reordered(ALL_CATEGORY_NAME, id, k, "ok")

SpecHotkey == Init /\ [][NextHotkey]_vars

(* The same side with saves that may fail: the operations that set a       *)
(* hotkey.                                                                  *)
FailOutcomes == {"ok", "write_fail"}

NextSaveFail ==
    \/ \E hk \in HotkeyInputs, o \in FailOutcomes :
          /\ Len(shortcuts) < MaxHotkeyShortcuts
          /\ add_shortcut(hk, "http://a", CAT_GIBON, o)
    \/ \E id \in 1..MaxIds, hk \in HotkeyInputs, url \in Urls, o \in FailOutcomes :
          edit_shortcut(id, hk, url, CAT_GIBON, o)
    \/ \E hk \in HotkeyInputs, o \in FailOutcomes :
          open_global_hotkey_settings_dialog(hk, o)

SpecSaveFail == Init /\ [][NextSaveFail]_vars

(* The registry from any settings file: the list a file holds may have      *)
(* duplicate hotkeys, hotkeys equal to the global one, strings the backend  *)
(* rejects and records without a url.                                       *)
DocUrls == Urls \cup {""}

DocRecord(i, hk, url) == Rec(i, url, hk, CAT_GIBON, i * ONE)

DocLists ==
    UNION {[1..n -> (Hotkeys \cup {NO_HOTKEY}) \X DocUrls] : n \in 0..MaxDocShortcuts}

DocOf(l, g) ==
    Doc(<<CAT_GIBON>>, [i \in 1..Len(l) |-> DocRecord(i, l[i][1], l[i][2])], g)

Docs == {DocOf(l, g) : l \in DocLists, g \in HotkeyInputs}

InitDocs == \E f \in Docs : InitFrom(f)

(* A call of register_item_hotkey for a record with hotkey h, and the call  *)
(* of unregister_hotkey(h) that follows it.                                 *)
probe_register(h, url) ==
    /\ lastOp.op # "probe_register"
    /\ LET r == register_item_hotkey(Rec(0, url, h, CAT_GIBON, ONE), hotkey_actions,
                                     kb, global_show_window_hotkey_str)
       IN  /\ hotkey_actions' = r.ha
           /\ kb' = r.kb
    /\ probe' = [h |-> h, ha |-> hotkey_actions, kb |-> kb]
    /\ lastOp' = Op("probe_register", "done")
    /\ UNCHANGED <<shortcuts, categories_order, global_show_window_hotkey_str,
                   is_global_show_hotkey_registered, file, next_id, save_failures>>
    /\ UNCHANGED <<now, last_global_hotkey_time, queue, executed, trig, window>>

probe_unregister ==
    /\ lastOp.op = "probe_register"
    /\ LET r == unregister_hotkey(probe.h, hotkey_actions, kb)
       IN  /\ hotkey_actions' = r.ha
           /\ kb' = r.kb
    /\ lastOp' = Op("probe_unregister", "done")
    /\ UNCHANGED <<shortcuts, categories_order, global_show_window_hotkey_str,
                   is_global_show_hotkey_registered, file, next_id, save_failures>>
    /\ UNCHANGED hookVars

Unbound(h) == h \notin DOMAIN hotkey_actions /\ ~IsGlobalHotkey(h)

NextRegistry ==
    \/ \E hk \in HotkeyInputs, url \in Urls :
          /\ lastOp.op # "probe_register"
          /\ Len(shortcuts) < MaxHotkeyShortcuts
          /\ add_shortcut(hk, url, CAT_GIBON, "ok")
    \/ \E id \in 1..MaxIds : lastOp.op # "probe_register" /\ delete_shortcut(id, "ok")
    \/ \E h \in Hotkeys, url \in Urls : Unbound(h) /\ probe_register(h, url)
    \/ probe_unregister

SpecRegistry == InitDocs /\ [][NextRegistry]_vars

(* The ordering side: records without hotkeys in two categories, reordered  *)
(* in every tab.                                                            *)
CAT_WORK == "work"

NextOrder ==
    \/ \E cat \in {CAT_GIBON, CAT_WORK} : add_shortcut(NO_HOTKEY, "http://a", cat, "ok")
    \/ add_category(CAT_WORK, "ok")
    \/ \E id \in 1..MaxIds, cat \in {CAT_GIBON, CAT_WORK} :
          edit_shortcut(id, NO_HOTKEY, "http://a", cat, "ok")
    \/ \E id \in 1..MaxIds, cat \in {CAT_GIBON, CAT_WORK} :
          move_shortcut_to_category(id, cat, "ok")
    \/ \E tab \in {ALL_CATEGORY_NAME, CAT_GIBON, CAT_WORK}, id \in 1..MaxIds,
          k \in 0..(MaxShortcuts - 1) : on_shortcut_item_reordered(tab, id, k, "ok")

SpecOrder == Init /\ [][NextOrder]_vars

(* The hook side: a settings file with one record that has a hotkey; the    *)
(* keys are pressed while the clock runs.                                   *)
HookDoc == DocOf(<< <<HK_K, "http://a">> >>, DEFAULT_GLOBAL_HOTKEY)

InitHook == InitFrom(HookDoc)

NextHook ==
    \/ Tick
    \/ \E i \in 1..MaxShortcuts + 1 : on_global_show_hotkey_triggered(i)
    \/ \E i \in 1..MaxShortcuts + 1 : item_callback(i)
    \/ execute_toggle_window_visibility_gui_thread

SpecHook == InitHook /\ [][NextHook]_vars

----------------------------------------------------------------------------
(* The claims. *)

(* C1: no two distinct records hold the same non-empty hotkey, after any    *)
(* sequence of add, edit, delete, move to a category, reorder and change of *)
(* the global hotkey.                                                       *)
C1_HotkeyUnique ==
    \A i, j \in 1..Len(shortcuts) :
        i # j /\ shortcuts[i].hotkey # NO_HOTKEY
            => shortcuts[i].hotkey # shortcuts[j].hotkey

(* Two records with hotkeys, and an edit to the other's hotkey refused. *)
C1_Witness ==
    /\ Len(shortcuts) = 2
    /\ shortcuts[1].hotkey # NO_HOTKEY
    /\ shortcuts[2].hotkey # NO_HOTKEY
    /\ lastOp = Op("edit", "rejected")

(* C2: no record's hotkey equals the non-empty global toggle hotkey, in     *)
(* every state reached by add, edit and changes of the global hotkey, the   *)
(* reverted ones and runs with failed saves included.                       *)
C2_GlobalExclusion ==
    \A i \in 1..Len(shortcuts) :
        global_show_window_hotkey_str # NO_HOTKEY
            => shortcuts[i].hotkey # global_show_window_hotkey_str

(* register_all_item_hotkeys has just run: at the end of construction and   *)
(* of a completed add, edit or delete.                                      *)
AfterReconcile ==
    \/ lastOp.op = "init"
    \/ lastOp.op \in {"add", "edit", "delete"} /\ lastOp.res = "done"

Registrable(sc, h) == sc.hotkey = h /\ sc.url # ""

(* C3: after register_all_item_hotkeys, for every record list: no hotkey    *)
(* string has two handlers, the global hotkey's string is not bound to an   *)
(* item, and a bound string opens the url of the first record that has the  *)
(* string (and a url).                                                      *)
C3_Reconcile ==
    AfterReconcile =>
        /\ \A h \in Hotkeys : KbCount(kb, h) <= 1
        /\ global_show_window_hotkey_str # NO_HOTKEY =>
              /\ global_show_window_hotkey_str \notin DOMAIN hotkey_actions
              /\ \A m \in 1..Len(kb) :
                    kb[m].hk = global_show_window_hotkey_str => kb[m].act = TOGGLE
        /\ \A h \in DOMAIN hotkey_actions :
              \E i \in 1..Len(shortcuts) :
                  /\ Registrable(shortcuts[i], h)
                  /\ \A j \in 1..(i - 1) : ~Registrable(shortcuts[j], h)
                  /\ hotkey_actions[h] = shortcuts[i].url
                  /\ \E m \in 1..Len(kb) : kb[m] = [hk |-> h, act |-> shortcuts[i].url]

(* Two records with the same hotkey and different urls, reconciled. *)
C3_Witness ==
    /\ AfterReconcile
    /\ Len(shortcuts) = 2
    /\ shortcuts[1].hotkey = HK_K
    /\ shortcuts[2].hotkey = HK_K
    /\ shortcuts[1].url # ""
    /\ shortcuts[2].url # ""
    /\ shortcuts[1].url # shortcuts[2].url
    /\ HK_K \in DOMAIN hotkey_actions

(* The hotkey handed to add_shortcut or edit_shortcut is held by another    *)
(* record or is the global hotkey.                                          *)
Colliding(id, hk) ==
    hk # NO_HOTKEY /\ (HotkeyTakenByOther(shortcuts, hk, id) \/ IsGlobalHotkey(hk))

(* C4: an add or edit given a non-empty hotkey that another record holds or *)
(* that is the global hotkey changes neither the record list, nor           *)
(* categories_order, nor hotkey_actions, nor the backend, nor the file.     *)
C4_CollisionRejected ==
    [][\A hk \in HotkeyInputs, url \in Urls, o \in SaveOutcomes :
          /\ (Colliding(0, hk) /\ add_shortcut(hk, url, CAT_GIBON, o))
                => UNCHANGED <<shortcuts, categories_order, hotkey_actions, kb, file>>
          /\ \A id \in 1..MaxIds :
                (Colliding(id, hk) /\ edit_shortcut(id, hk, url, CAT_GIBON, o))
                    => UNCHANGED <<shortcuts, categories_order, hotkey_actions, kb,
                                   file>>]_vars

PriorityOf(id) == ById(shortcuts, id).priority

(* C5: the priority a reorder gives the moved record is strictly greater    *)
(* than its predecessor's in the dropped arrangement and strictly less than *)
(* its successor's.                                                         *)
C5_StrictlyBetween ==
    lastOp.op = "reorder" =>
        LET arr == lastOp.arr
            k == lastOp.k
        IN  /\ k > 0 => PriorityOf(arr[k + 1]) > PriorityOf(arr[k])
            /\ k < Len(arr) - 1 => PriorityOf(arr[k + 1]) < PriorityOf(arr[k + 2])

(* C6: after a reorder the view, sorted again by priority, is the           *)
(* arrangement the drop left: the moved record at its row, the others in    *)
(* their order.                                                             *)
C6_SortedIsDropped ==
    lastOp.op = "reorder" => IdsOf(ViewItems(shortcuts, lastOp.res)) = lastOp.arr

(* C7: no two records of one category have equal priority. *)
C7_NoTies ==
    \A i, j \in 1..Len(shortcuts) :
        i # j /\ shortcuts[i].category = shortcuts[j].category
            => shortcuts[i].priority # shortcuts[j].priority

(* The last two trigger events of binding h. *)
LastTwo(h) == SubSeq(trig[h], Len(trig[h]) - 1, Len(trig[h]))

(* C8: for any binding, of two trigger events in a row, the first one       *)
(* forwarded, the second is dropped when it comes less than the debounce    *)
(* interval after the first and forwarded when it comes more than the       *)
(* interval after it.                                                       *)
C8_Debounce ==
    \A h \in Hotkeys :
        Len(trig[h]) >= 2 /\ LastTwo(h)[1].fwd =>
            /\ LastTwo(h)[2].t - LastTwo(h)[1].t < HOTKEY_DEBOUNCE_TIME
                  => ~LastTwo(h)[2].fwd
            /\ LastTwo(h)[2].t - LastTwo(h)[1].t > HOTKEY_DEBOUNCE_TIME
                  => LastTwo(h)[2].fwd

(* C9: the action of a hotkey, the toggle of the window or the opening of a *)
(* record's target, is run by the GUI thread only.                          *)
C9_ActionsOnGuiThread ==
    executed.act \in Urls \cup {TOGGLE} => executed.thread = "gui"

(* C10: register_item_hotkey for an unbound string that is not the global   *)
(* hotkey, then unregister_hotkey of the string, leaves hotkey_actions and  *)
(* the backend's handlers as they were.                                     *)
C10_RoundTrip ==
    lastOp.op = "probe_unregister" => hotkey_actions = probe.ha /\ kb = probe.kb

(* The pair has run for a string the backend accepts, beside a record's     *)
(* binding and the global one.                                              *)
C10_Witness ==
    /\ lastOp.op = "probe_unregister"
    /\ KbAccepts(probe.h)
    /\ Len(probe.kb) >= 2
    /\ probe.ha # EmptyMap

----------------------------------------------------------------------------
(* Reconciliation on its own: register_all_item_hotkeys() called on the     *)
(* state the window is in, once or several times in a row.  lastOp.k counts *)
(* the calls in a row (1, then 2); probe keeps the registry before the      *)
(* call.                                                                    *)

reconcile ==
    /\ LET r == register_all_item_hotkeys(shortcuts, hotkey_actions, kb,
                                          global_show_window_hotkey_str)
       IN  /\ hotkey_actions' = r.ha
           /\ kb' = r.kb
    /\ probe' = [h |-> NO_HOTKEY, ha |-> hotkey_actions, kb |-> kb]
    /\ lastOp' = [Op("reconcile", "done") EXCEPT
                     !.k = IF lastOp.op = "reconcile" THEN 2 ELSE 1]
    /\ UNCHANGED <<shortcuts, categories_order, global_show_window_hotkey_str,
                   is_global_show_hotkey_registered, file, next_id, save_failures>>
    /\ UNCHANGED <<now, last_global_hotkey_time, queue, executed, trig, window>>

(* Any settings file, then records added and deleted, the global hotkey     *)
(* changed (which runs no reconcile), and reconciles.                       *)
NextReconcile ==
    \/ \E hk \in HotkeyInputs, url \in Urls :
          /\ Len(shortcuts) < MaxHotkeyShortcuts
          /\ add_shortcut(hk, url, CAT_GIBON, "ok")
    \/ \E id \in 1..MaxIds : delete_shortcut(id, "ok")
    \/ \E hk \in HotkeyInputs : open_global_hotkey_settings_dialog(hk, "ok")
    \/ reconcile

SpecReconcile == InitDocs /\ [][NextReconcile]_vars

(* C11: register_all_item_hotkeys called twice in a row leaves after the    *)
(* second call the hotkey strings, the urls bound to them and the backend's *)
(* handlers that the first call left.                                       *)
C11_ReconcileIdempotent ==
    lastOp.op = "reconcile" /\ lastOp.k = 2
        => hotkey_actions = probe.ha /\ kb = probe.kb

(* A second reconcile in a row, of a list whose two records share a hotkey, *)
(* with a binding to re-register.                                           *)
C11_Witness ==
    /\ lastOp.op = "reconcile"
    /\ lastOp.k = 2
    /\ Len(shortcuts) = 2
    /\ shortcuts[1].hotkey = shortcuts[2].hotkey
    /\ hotkey_actions # EmptyMap

(* Record i of the list is skipped by reconcile: its hotkey is the global   *)
(* one, or an earlier record has the hotkey (and a url).                    *)
SkippedAsGlobal(scs, i, g) == scs[i].hotkey # NO_HOTKEY /\ scs[i].hotkey = g

SkippedAsDuplicate(scs, i) ==
    /\ scs[i].hotkey # NO_HOTKEY
    /\ \E j \in 1..(i - 1) : Registrable(scs[j], scs[i].hotkey)

(* C12: register_all_item_hotkeys changes no record and not the global      *)
(* hotkey string; a record it skips, for the global hotkey or as a          *)
(* duplicate, keeps its hotkey and has no binding of its own: the global    *)
(* string is not in hotkey_actions, and a duplicated string is bound to the *)
(* url of the first record that has it.                                     *)
C12_ReconcileFrame ==
    [][lastOp'.op = "reconcile" =>
          /\ shortcuts' = shortcuts
          /\ global_show_window_hotkey_str' = global_show_window_hotkey_str
          /\ file' = file
          /\ \A i \in 1..Len(shortcuts') :
                /\ SkippedAsGlobal(shortcuts', i, global_show_window_hotkey_str')
                      => shortcuts'[i].hotkey \notin DOMAIN hotkey_actions'
                /\ SkippedAsDuplicate(shortcuts', i)
                      => \E j \in 1..(i - 1) :
                            /\ Registrable(shortcuts'[j], shortcuts'[i].hotkey)
                            /\ \A m \in 1..(j - 1) :
                                  ~Registrable(shortcuts'[m], shortcuts'[i].hotkey)
                            /\ shortcuts'[i].hotkey \in DOMAIN hotkey_actions'
                                  => hotkey_actions'[shortcuts'[i].hotkey]
                                         = shortcuts'[j].url]_vars

(* A reconcile has run on a list with a record that holds the global hotkey *)
(* and a record that repeats the hotkey of an earlier one.                  *)
C12_Witness ==
    /\ lastOp.op = "reconcile"
    /\ \E i \in 1..Len(shortcuts) :
          SkippedAsGlobal(shortcuts, i, global_show_window_hotkey_str)
              /\ shortcuts[i].url # ""
    /\ \E i \in 1..Len(shortcuts) :
          SkippedAsDuplicate(shortcuts, i) /\ shortcuts[i].url # ""

----------------------------------------------------------------------------
(* The bindings against the data, with a backend that accepts every string  *)
(* it is given: settings files and inputs hold no string of BadHotkeys.     *)

ValidInputs == HotkeyInputs \ BadHotkeys

ValidDocLists ==
    UNION {[1..n -> ValidInputs \X DocUrls] : n \in 0..MaxDocShortcuts}

ValidDocs == {DocOf(l, g) : l \in ValidDocLists, g \in ValidInputs}

InitValidDocs == \E f \in ValidDocs : InitFrom(f)

NextTrack ==
    \/ \E hk \in ValidInputs, url \in Urls :
          /\ Len(shortcuts) < MaxHotkeyShortcuts
          /\ add_shortcut(hk, url, CAT_GIBON, "ok")
    \/ \E id \in 1..MaxIds, hk \in ValidInputs, url \in Urls :
          edit_shortcut(id, hk, url, CAT_GIBON, "ok")
    \/ \E id \in 1..MaxIds : delete_shortcut(id, "ok")
    \/ \E hk \in ValidInputs : open_global_hotkey_settings_dialog(hk, "ok")

SpecTrack == InitValidDocs /\ [][NextTrack]_vars

(* The handlers of records in the backend. *)
ItemHandlers(k) == {k[i] : i \in {j \in 1..Len(k) : k[j].act # TOGGLE}}

(* What register_all_item_hotkeys gives on an empty registry. *)
FreshReconcile ==
    register_all_item_hotkeys(shortcuts, EmptyMap, << >>, global_show_window_hotkey_str)

(* C13: after every completed add, edit or delete of a record and every     *)
(* completed change of the global hotkey, hotkey_actions and the records'   *)
(* handlers in the backend are those a reconcile of the current records     *)
(* against the current global hotkey gives.                                 *)
C13_BindingsTrackData ==
    lastOp.op \in {"add", "edit", "delete", "global"} /\ lastOp.res = "done"
        => /\ hotkey_actions = FreshReconcile.ha
           /\ ItemHandlers(kb) = Range(FreshReconcile.kb)

(* C14: a string the backend rejects does not stop register_all_item_hotkeys *)
(* and is not in hotkey_actions after it; every record whose hotkey the     *)
(* backend accepts, that is the first with its hotkey and does not hold the *)
(* global hotkey, is bound to its url, in the map and in the backend.       *)
C14_RejectionIsLocal ==
    AfterReconcile =>
        /\ \A h \in BadHotkeys : h \notin DOMAIN hotkey_actions
        /\ \A i \in 1..Len(shortcuts) :
              (/\ Registrable(shortcuts[i], shortcuts[i].hotkey)
               /\ shortcuts[i].hotkey # NO_HOTKEY
               /\ KbAccepts(shortcuts[i].hotkey)
               /\ ~IsGlobalHotkey(shortcuts[i].hotkey)
               /\ \A j \in 1..(i - 1) : ~Registrable(shortcuts[j], shortcuts[i].hotkey))
                  => /\ shortcuts[i].hotkey \in DOMAIN hotkey_actions
                     /\ hotkey_actions[shortcuts[i].hotkey] = shortcuts[i].url
                     /\ \E m \in 1..Len(kb) :
                           kb[m] = [hk |-> shortcuts[i].hotkey, act |-> shortcuts[i].url]

(* A list whose first record has a string the backend rejects and whose     *)
(* second record is bound.                                                  *)
C14_Witness ==
    /\ AfterReconcile
    /\ Len(shortcuts) = 2
    /\ shortcuts[1].hotkey \in BadHotkeys
    /\ shortcuts[1].url # ""
    /\ shortcuts[2].hotkey \in DOMAIN hotkey_actions

(* C15: when the backend rejects the hotkey the user is setting, the        *)
(* operation reports a failure: add_shortcut and edit_shortcut for a        *)
(* record's hotkey, the global-hotkey dialog for the global one.            *)
C15_FailureReported ==
    [][\A hk \in BadHotkeys :
          /\ add_shortcut(hk, "http://a", CAT_GIBON, "ok") => lastOp'.res # "done"
          /\ \A id \in 1..MaxIds :
                edit_shortcut(id, hk, "http://a", CAT_GIBON, "ok")
                    => lastOp'.res # "done"
          /\ open_global_hotkey_settings_dialog(hk, "ok") => lastOp'.res # "done"]_vars

----------------------------------------------------------------------------
(* Loading from a settings file that is not a document the program wrote.   *)
(* A file of shape                                                          *)
(*   unreadable          cannot be opened,                                  *)
(*   invalid_json        is not JSON,                                       *)
(*   not_object          is JSON but not an object (data.get fails),        *)
(*   shortcuts_not_list  is an object whose "shortcuts" is a number,        *)
(*   categories_number   is an object whose "categories_order" is a number  *)
(*                       and whose "shortcuts" is an empty list.            *)

BadFileShapes ==
    {"unreadable", "invalid_json", "not_object", "shortcuts_not_list",
     "categories_number"}

BadFile(shape) == [exists |-> TRUE, shape |-> shape]

IsDocFile(f) == f.exists /\ "shape" \notin DOMAIN f

(* The try block of load_data_and_register_hotkeys and what follows it up   *)
(* to the clean-up of reserved names: `crashed` when an exception leaves    *)
(* the method.  The first four shapes raise inside the try block, whose     *)
(* handler resets the lists and the global hotkey; categories_number        *)
(* passes the try block and raises in the clean-up, which iterates over     *)
(* categories_order.                                                        *)
load_data(f) ==
    IF ~f.exists
    THEN [crashed |-> FALSE, shortcuts |-> << >>, categories_order |-> <<CAT_GIBON>>,
          g |-> DEFAULT_GLOBAL_HOTKEY]
    ELSE IF IsDocFile(f)
    THEN [crashed |-> FALSE, shortcuts |-> f.shortcuts, categories_order |-> LoadedCats(f),
          g |-> f.global_show_window_hotkey]
    ELSE IF f.shape = "categories_number"
    THEN [crashed |-> TRUE, shortcuts |-> << >>, categories_order |-> << >>,
          g |-> DEFAULT_GLOBAL_HOTKEY]
    ELSE [crashed |-> FALSE, shortcuts |-> << >>, categories_order |-> <<CAT_GIBON>>,
          g |-> DEFAULT_GLOBAL_HOTKEY]

(* Construction from any file.  After a crash nothing has been registered;  *)
(* categories_order, a number in the program then, is kept as << >>.        *)
InitLoad(f) ==
    LET d == load_data(f)
        items == register_all_item_hotkeys(d.shortcuts, EmptyMap, << >>, d.g)
        glob == register_new_global_show_window_hotkey(d.g, items.kb)
    IN  /\ shortcuts = d.shortcuts
        /\ categories_order = d.categories_order
        /\ global_show_window_hotkey_str = d.g
        /\ hotkey_actions = IF d.crashed THEN EmptyMap ELSE items.ha
        /\ is_global_show_hotkey_registered = IF d.crashed THEN FALSE ELSE glob.reg
        /\ kb = IF d.crashed THEN << >> ELSE glob.kb
        /\ file = f
        /\ next_id = Len(d.shortcuts)
        /\ save_failures = 0
        /\ now = StartTime
        /\ last_global_hotkey_time = 0
        /\ queue = 0
        /\ executed = [act |-> "", thread |-> ""]
        /\ trig = [h \in Hotkeys |-> << >>]
        /\ probe = NoProbe
        /\ window = "active"
        /\ lastOp = Op("init", IF d.crashed THEN "crashed" ELSE "done")

Files == Docs \cup {NoFile} \cup {BadFile(shape) : shape \in BadFileShapes}

InitFiles == \E f \in Files : InitLoad(f)

Running == lastOp.res # "crashed"

(* Any file, then records added and deleted while the process lives. *)
NextLoad ==
    \/ \E hk \in HotkeyInputs, url \in Urls :
          /\ Running
          /\ Len(shortcuts) < MaxHotkeyShortcuts
          /\ add_shortcut(hk, url, CAT_GIBON, "ok")
    \/ \E id \in 1..MaxIds : Running /\ delete_shortcut(id, "ok")

SpecLoad == InitFiles /\ [][NextLoad]_vars

(* C16: from a settings file that is missing, unreadable, not JSON or JSON  *)
(* of the wrong shape, load_data_and_register_hotkeys ends without an       *)
(* exception, with no records, the default category list and the default    *)
(* global hotkey.                                                           *)
C16_LoadFallsBack ==
    lastOp.op = "init" /\ ~IsDocFile(file) =>
        /\ lastOp.res = "done"
        /\ shortcuts = << >>
        /\ categories_order = <<CAT_GIBON>>
        /\ global_show_window_hotkey_str = DEFAULT_GLOBAL_HOTKEY

----------------------------------------------------------------------------
(* Saves that fail, in either way, under every operation that saves. *)

SaveInputs == {NO_HOTKEY, HK_K}

NextSave ==
    \/ \E hk \in SaveInputs, o \in SaveOutcomes :
          /\ Len(shortcuts) < MaxHotkeyShortcuts
          /\ add_shortcut(hk, "http://a", CAT_GIBON, o)
    \/ \E id \in 1..MaxIds, hk \in SaveInputs, o \in SaveOutcomes :
          edit_shortcut(id, hk, "http://b", CAT_GIBON, o)
    \/ \E id \in 1..MaxIds, o \in SaveOutcomes : delete_shortcut(id, o)
    \/ \E o \in SaveOutcomes : add_category(CAT_WORK, o)
    \/ \E hk \in {NO_HOTKEY, HK_J}, o \in SaveOutcomes :
          open_global_hotkey_settings_dialog(hk, o)

SpecSave == Init /\ [][NextSave]_vars

FailedOutcomes == SaveOutcomes \ {"ok"}

(* C17: when save_data fails, by the data folder or by the write, the       *)
(* records, categories_order and the global hotkey string in memory have    *)
(* the values of the edit that was being saved, and the file is as it was.  *)
C17_FailedSaveKeepsEdit ==
    [][\A o \in FailedOutcomes :
          /\ \A hk \in SaveInputs :
                add_shortcut(hk, "http://a", CAT_GIBON, o) =>
                    /\ file' = file
                    /\ Range(shortcuts') = Range(shortcuts) \cup
                           {Rec(next_id + 1, "http://a", hk, CAT_GIBON,
                                MaxPriorityOf(shortcuts) + ONE)}
                    /\ Len(shortcuts') = Len(shortcuts) + 1
                    /\ categories_order' = categories_order
                    /\ global_show_window_hotkey_str' = global_show_window_hotkey_str
          /\ \A id \in 1..MaxIds, hk \in SaveInputs :
                edit_shortcut(id, hk, "http://b", CAT_GIBON, o) =>
                    /\ file' = file
                    /\ Range(shortcuts') = (Range(shortcuts) \ {ById(shortcuts, id)}) \cup
                           {Rec(id, "http://b", hk, CAT_GIBON,
                                ById(shortcuts, id).priority)}
                    /\ Len(shortcuts') = Len(shortcuts)
                    /\ global_show_window_hotkey_str' = global_show_window_hotkey_str
          /\ \A id \in 1..MaxIds :
                delete_shortcut(id, o) =>
                    /\ file' = file
                    /\ Range(shortcuts') = Range(shortcuts) \ {ById(shortcuts, id)}
                    /\ categories_order' = categories_order
          /\ add_category(CAT_WORK, o) =>
                /\ file' = file
                /\ categories_order' = Append(categories_order, CAT_WORK)
                /\ Range(shortcuts') = Range(shortcuts)
          /\ \A hk \in {NO_HOTKEY, HK_J} :
                (open_global_hotkey_settings_dialog(hk, o) /\ lastOp'.res = "done") =>
                    /\ file' = file
                    /\ global_show_window_hotkey_str' = hk
                    /\ Range(shortcuts') = Range(shortcuts)
                    /\ categories_order' = categories_order]_vars

(* An edit of a record kept in memory after its save failed, the file       *)
(* behind it.                                                               *)
C17_Witness ==
    /\ lastOp = Op("edit", "done")
    /\ save_failures > 0
    /\ file.exists
    /\ Len(shortcuts) = 2
    /\ Range(file.shortcuts) # Range(shortcuts)

----------------------------------------------------------------------------
(* The life of a binding, up to shutdown. *)

(* quit_application(): the global hotkey is unregistered, then every key of *)
(* hotkey_actions.                                                          *)
quit_application ==
    /\ LET u == unregister_current_global_show_window_hotkey(
                    global_show_window_hotkey_str, is_global_show_hotkey_registered, kb)
           r == UnregisterKeys(DOMAIN hotkey_actions, hotkey_actions, u.kb)
       IN  /\ is_global_show_hotkey_registered' = u.reg
           /\ hotkey_actions' = r.ha
           /\ kb' = r.kb
    /\ lastOp' = Op("quit", "done")
    /\ UNCHANGED <<shortcuts, categories_order, global_show_window_hotkey_str, file,
                   next_id, save_failures>>
    /\ UNCHANGED hookVars

Alive == lastOp.op # "quit"

(* The operations that set hotkeys, with saves that may fail, until the     *)
(* application quits.                                                       *)
NextLifecycle ==
    \/ \E hk \in HotkeyInputs, o \in FailOutcomes :
          /\ Alive
          /\ Len(shortcuts) < MaxHotkeyShortcuts
          /\ add_shortcut(hk, "http://a", CAT_GIBON, o)
    \/ \E id \in 1..MaxIds, hk \in HotkeyInputs, url \in Urls, o \in FailOutcomes :
          Alive /\ edit_shortcut(id, hk, url, CAT_GIBON, o)
    \/ \E hk \in HotkeyInputs, o \in FailOutcomes :
          Alive /\ open_global_hotkey_settings_dialog(hk, o)
    \/ Alive /\ quit_application

SpecLifecycle == Init /\ [][NextLifecycle]_vars

(* C18: a hotkey string comes into hotkey_actions only with a handler the   *)
(* backend has accepted for it, leaves it only in an operation that         *)
(* unregisters (the reconcile of add, edit and delete) or at shutdown, and  *)
(* after quit_application hotkey_actions is empty, the global hotkey is     *)
(* unregistered and the backend holds no handler.                           *)
C18_Lifecycle ==
    [][/\ \A h \in Hotkeys :
             (h \notin DOMAIN hotkey_actions /\ h \in DOMAIN hotkey_actions') =>
                 /\ KbAccepts(h)
                 /\ \E m \in 1..Len(kb') : kb'[m] = [hk |-> h, act |-> hotkey_actions'[h]]
       /\ \A h \in Hotkeys :
             (h \in DOMAIN hotkey_actions /\ h \notin DOMAIN hotkey_actions') =>
                 lastOp'.op \in {"add", "edit", "delete", "quit"}
       /\ lastOp'.op = "quit" =>
             /\ hotkey_actions' = EmptyMap
             /\ ~is_global_show_hotkey_registered'
             /\ kb' = << >>]_vars

(* The application has quit with a record's hotkey and the global hotkey    *)
(* bound before.                                                            *)
C18_Witness ==
    /\ lastOp.op = "quit"
    /\ global_show_window_hotkey_str # NO_HOTKEY
    /\ KbAccepts(global_show_window_hotkey_str)
    /\ \E i \in 1..Len(shortcuts) :
          /\ shortcuts[i].hotkey # NO_HOTKEY
          /\ KbAccepts(shortcuts[i].hotkey)
          /\ shortcuts[i].hotkey # global_show_window_hotkey_str

----------------------------------------------------------------------------
(* The value a reorder writes, against the neighbours of the moved record   *)
(* in the dropped arrangement lastOp.arr; a reorder changes the priority of *)
(* the moved record only, so the neighbours' priorities are those the       *)
(* reorder read.                                                            *)

MovedPriority == PriorityOf(lastOp.arr[lastOp.k + 1])

HasPredecessor == lastOp.k > 0

HasSuccessor == lastOp.k < Len(lastOp.arr) - 1

PredecessorPriority == PriorityOf(lastOp.arr[lastOp.k])

SuccessorPriority == PriorityOf(lastOp.arr[lastOp.k + 2])

(* Twice the priority the rule gives, before any collision adjustment. *)
TwiceRulePriority ==
    IF Len(lastOp.arr) = 1 THEN 2 * ONE
    ELSE IF ~HasPredecessor THEN SuccessorPriority
    ELSE IF ~HasSuccessor THEN 2 * (PredecessorPriority + ONE)
    ELSE PredecessorPriority + SuccessorPriority

RulePriority == TwiceRulePriority \div 2

(* The rule's value is within the tolerance of a neighbour's priority. *)
RuleCollides ==
    \/ HasPredecessor /\ WithinEpsilon(RulePriority - PredecessorPriority)
    \/ HasSuccessor /\ WithinEpsilon(RulePriority - SuccessorPriority)

(* C19: when no collision adjustment applies, a reorder writes 1.0 for the  *)
(* only record of the view, half the successor's priority for a record      *)
(* dropped first, the predecessor's priority plus 1.0 for a record dropped  *)
(* last, and the mean of predecessor and successor otherwise.               *)
C19_RulePriority ==
    (lastOp.op = "reorder" /\ ~RuleCollides)
        => /\ 2 * MovedPriority = TwiceRulePriority
           /\ MovedPriority > 0

(* View [A: 1.0, B: 2.0], B dropped on row 0: B has 0.5. *)
C19_Witness ==
    /\ lastOp.op = "reorder"
    /\ lastOp.k = 0
    /\ Len(lastOp.arr) = 2
    /\ PriorityOf(lastOp.arr[2]) = ONE
    /\ PriorityOf(lastOp.arr[1]) = HALF

(* C20: when the rule's value is within the tolerance of the predecessor's  *)
(* or the successor's priority, the priority written is at least the        *)
(* tolerance away from both neighbours and lies between them.               *)
C20_CollisionRepaired ==
    (lastOp.op = "reorder" /\ RuleCollides)
        => /\ HasPredecessor =>
                 /\ ~WithinEpsilon(MovedPriority - PredecessorPriority)
                 /\ PredecessorPriority < MovedPriority
           /\ HasSuccessor =>
                 /\ ~WithinEpsilon(MovedPriority - SuccessorPriority)
                 /\ MovedPriority < SuccessorPriority

----------------------------------------------------------------------------
(* What a reorder leaves alone. *)

(* The records of scs by id, the priority left out. *)
WithoutPriority(sc) == [sc EXCEPT !.priority = 0]

IsSorted(scs) == \A i \in 1..(Len(scs) - 1) : scs[i].priority <= scs[i + 1].priority

(* C21: a drag-and-drop reorder changes the priority of the moved record    *)
(* and nothing else: the other records keep their priority, every record    *)
(* keeps its id, url, hotkey and category, no record comes or goes, and     *)
(* categories_order, the global hotkey, its registration and the bindings   *)
(* (hotkey_actions and the backend's handlers) are as they were; the list   *)
(* is left sorted by priority.                                              *)
C21_ReorderFrame ==
    [][\A tab \in {ALL_CATEGORY_NAME, CAT_GIBON, CAT_WORK}, id \in 1..MaxIds,
          k \in 0..(MaxShortcuts - 1) :
          on_shortcut_item_reordered(tab, id, k, "ok") =>
              /\ Len(shortcuts') = Len(shortcuts)
              /\ Ids(shortcuts') = Ids(shortcuts)
              /\ \A j \in Ids(shortcuts) :
                    /\ WithoutPriority(ById(shortcuts', j)) =
                           WithoutPriority(ById(shortcuts, j))
                    /\ j # id => ById(shortcuts', j).priority =
                                     ById(shortcuts, j).priority
              /\ IsSorted(shortcuts')
              /\ UNCHANGED <<categories_order, global_show_window_hotkey_str,
                             is_global_show_hotkey_registered, hotkey_actions, kb>>]_vars

(* Two records, one of them bound to its hotkey, and the second dropped on  *)
(* the first row: its priority is now the smaller one.                      *)
C21_Witness ==
    /\ lastOp.op = "reorder"
    /\ lastOp.k = 0
    /\ Len(shortcuts) = 2
    /\ lastOp.id = shortcuts[1].id
    /\ shortcuts[1].priority < shortcuts[2].priority
    /\ hotkey_actions # EmptyMap

----------------------------------------------------------------------------
(* The identity of a record. *)

DistinctIds(scs) == \A i, j \in 1..Len(scs) : i # j => scs[i].id # scs[j].id

(* C22: edit_shortcut keeps the id and the priority of the record it edits  *)
(* and leaves every other record as it was; in every step of add, edit,     *)
(* delete, reorder and move the ids of the list stay pairwise distinct, a   *)
(* record that stays keeps its id (the ids of the list change only by the   *)
(* id deleted and by the fresh id of an add, which no record had before).   *)
C22_IdentityKept ==
    [][/\ \A id \in 1..MaxIds, hk \in HotkeyInputs :
             edit_shortcut(id, hk, "http://a", CAT_GIBON, "ok") =>
                 /\ Ids(shortcuts') = Ids(shortcuts)
                 /\ ById(shortcuts', id).priority = ById(shortcuts, id).priority
                 /\ \A j \in Ids(shortcuts) \ {id} :
                       ById(shortcuts', j) = ById(shortcuts, j)
       /\ DistinctIds(shortcuts')
       /\ Len(shortcuts') = Cardinality(Ids(shortcuts'))
       /\ Ids(shortcuts') \ Ids(shortcuts) \subseteq {next_id + 1}
       /\ \A j \in Ids(shortcuts') : j <= next_id'
       /\ next_id' >= next_id
       /\ lastOp'.op \in {"edit", "move", "reorder", "global"} =>
             Ids(shortcuts') = Ids(shortcuts)
       /\ lastOp'.op = "delete" =>
             Cardinality(Ids(shortcuts) \ Ids(shortcuts')) = 1]_vars

(* An edit that gave the first of two records another hotkey: it is still   *)
(* the first of the two, and the ids handed out so far are more than the    *)
(* records of the list (one was deleted).                                   *)
C22_Witness ==
    /\ lastOp = Op("edit", "done")
    /\ Len(shortcuts) = 2
    /\ shortcuts[1].hotkey = HK_K
    /\ next_id > Len(shortcuts)

----------------------------------------------------------------------------
(* The debounce of the global toggle. *)

(* The trigger events recorded for the global hotkey. *)
GlobalTrig == trig[global_show_window_hotkey_str]

(* C23: a trigger of the global toggle is forwarded (a toggle signal is     *)
(* emitted) exactly when more than the debounce interval has passed since   *)
(* the last forwarded trigger; a forwarded trigger stamps the time, a       *)
(* dropped one leaves the stamp and the queue alone, and nothing but a      *)
(* forwarded trigger adds a signal, so a dropped trigger is never forwarded *)
(* later; the stamp is the time of the last forwarded trigger whatever was  *)
(* dropped since; before the first trigger the stamp is more than the       *)
(* interval behind the clock, so the first trigger is forwarded.            *)
C23_GlobalDebounce ==
    [][/\ \A i \in 1..MaxShortcuts + 1 :
             on_global_show_hotkey_triggered(i) =>
                 /\ (queue' = queue + 1) <=>
                        (now - last_global_hotkey_time > HOTKEY_DEBOUNCE_TIME)
                 /\ queue' = queue + 1 => last_global_hotkey_time' = now
                 /\ queue' # queue + 1 =>
                        UNCHANGED <<queue, last_global_hotkey_time>>
                 /\ GlobalTrig = << >> => queue' = queue + 1
       /\ queue' > queue =>
             /\ lastOp'.op = "trigger_global"
             /\ now - last_global_hotkey_time > HOTKEY_DEBOUNCE_TIME
       /\ last_global_hotkey_time' # last_global_hotkey_time => queue' = queue + 1
       /\ \A n \in 1..Len(GlobalTrig') :
             (GlobalTrig'[n].fwd /\ \A m \in (n + 1)..Len(GlobalTrig') :
                                        ~GlobalTrig'[m].fwd)
                 => last_global_hotkey_time' = GlobalTrig'[n].t]_vars

(* A trigger dropped inside the interval, and the next trigger, after the   *)
(* interval, forwarded.                                                     *)
C23_Witness ==
    /\ Len(GlobalTrig) = 2
    /\ ~GlobalTrig[1].fwd
    /\ GlobalTrig[2].fwd
    /\ GlobalTrig[2].t - GlobalTrig[1].t < HOTKEY_DEBOUNCE_TIME
    /\ last_global_hotkey_time = GlobalTrig[2].t

----------------------------------------------------------------------------
(* The replacement of the global toggle hotkey. *)

(* The handlers of the backend that toggle the window. *)
ToggleHandlers(k) == {m \in 1..Len(k) : k[m].act = TOGGLE}

(* The backend after the unregistration that opens a replacement. *)
AfterUnregister ==
    unregister_current_global_show_window_hotkey(
        global_show_window_hotkey_str, is_global_show_hotkey_registered, kb).kb

(* What a completed replacement by hk leaves in memory and in the backend. *)
GlobalReplaced(hk) ==
    /\ ToggleHandlers(AfterUnregister) = {}
    /\ global_show_window_hotkey_str' = hk
    /\ {kb'[m].hk : m \in ToggleHandlers(kb')} = IF hk = NO_HOTKEY THEN {} ELSE {hk}
    /\ is_global_show_hotkey_registered' <=> hk # NO_HOTKEY

----------------------------------------------------------------------------
(* The global hotkey after a registration that failed. *)

(* C25: when the backend rejects the string chosen for the global toggle    *)
(* hotkey, the settings file is not written, the global hotkey string in    *)
(* memory is again the one that was in effect before the attempt, and that  *)
(* string is registered again (its toggle handler is the only one; none     *)
(* for the empty string).                                                   *)
C25_RevertRestores ==
    [][\A hk \in HotkeyInputs, o \in SaveOutcomes :
          (/\ open_global_hotkey_settings_dialog(hk, o)
           /\ lastOp'.res = "reverted") =>
              /\ file' = file
              /\ global_show_window_hotkey_str' = global_show_window_hotkey_str
              /\ {kb'[m].hk : m \in ToggleHandlers(kb')} =
                     IF global_show_window_hotkey_str = NO_HOTKEY
                     THEN {} ELSE {global_show_window_hotkey_str}]_vars

----------------------------------------------------------------------------
(* The global hotkey dialog against the records' hotkeys. *)

(* C26: a change of the global toggle hotkey to a non-empty string that a   *)
(* record holds is refused by the settings dialog: the global hotkey        *)
(* string, its registration (the flag and the backend's handlers), the      *)
(* records, the bindings of the records and the settings file are as they   *)
(* were.                                                                    *)
C26_GlobalCollisionRejected ==
    [][\A hk \in HotkeyInputs \ {NO_HOTKEY}, o \in SaveOutcomes :
          (/\ HotkeyTaken(shortcuts, hk)
           /\ open_global_hotkey_settings_dialog(hk, o)) =>
              /\ lastOp'.res = "rejected"
              /\ UNCHANGED <<global_show_window_hotkey_str,
                             is_global_show_hotkey_registered, kb, shortcuts,
                             hotkey_actions, categories_order, file>>]_vars

(* The dialog has refused the hotkey of a record that is bound to it. *)
C26_Witness ==
    /\ lastOp = Op("global", "rejected")
    /\ HK_K \in DOMAIN hotkey_actions
    /\ HotkeyTaken(shortcuts, HK_K)
    /\ global_show_window_hotkey_str = DEFAULT_GLOBAL_HOTKEY
    /\ is_global_show_hotkey_registered

----------------------------------------------------------------------------
(* What the bindings of the records open. *)

(* A record of the list holds hotkey h and url u. *)
Holds(h, u) == \E i \in 1..Len(shortcuts) : shortcuts[i].hotkey = h /\ shortcuts[i].url = u

(* An add, edit or delete of a record has just completed. *)
RecordChanged == lastOp.op \in {"add", "edit", "delete"} /\ lastOp.res = "done"

(* C27: after every completed add, edit or delete of a record, every item   *)
(* handler of the backend and every entry of hotkey_actions opens the url   *)
(* that a record of the list, holding that hotkey, has now: none opens the  *)
(* url of a deleted record or a url an edit has replaced.                   *)
C27_NoStaleActions ==
    RecordChanged =>
        /\ \A m \in 1..Len(kb) : kb[m].act # TOGGLE => Holds(kb[m].hk, kb[m].act)
        /\ \A h \in DOMAIN hotkey_actions : Holds(h, hotkey_actions[h])

----------------------------------------------------------------------------
(* The categories: deletion of a category and the reordering of the tabs. *)

(* list.remove(x): the list without the first x. *)
RemoveFirst(s, x) ==
    IF x \in Range(s)
    THEN LET i == CHOOSE j \in 1..Len(s) :
                      s[j] = x /\ \A m \in 1..(j - 1) : s[m] # x
         IN  SubSeq(s, 1, i - 1) \o SubSeq(s, i + 1, Len(s))
    ELSE s

(* The category that takes the records of a deleted one: the first of the   *)
(* others, or "ilban" when there is no other.                               *)
FallbackCategory(cats, name) ==
    LET remaining_categories == SelectSeq(cats, LAMBDA c : c # name)
    IN  IF cats # << >> /\ remaining_categories # << >>
        THEN remaining_categories[1] ELSE CAT_ILBAN

(* delete_category_action(name), from the menu of a category tab, the       *)
(* question answered with yes.                                              *)
delete_category_action(name, outcome) ==
    /\ name \in Range(categories_order)
    /\ name \notin {ALL_CATEGORY_NAME, ADD_CATEGORY_TAB_TEXT}
    /\ SaveAllowed(outcome)
    /\ LET target_fallback_category == FallbackCategory(categories_order, name)
           moved == [i \in 1..Len(shortcuts) |->
                        IF shortcuts[i].category = name
                        THEN [shortcuts[i] EXCEPT !.category = target_fallback_category]
                        ELSE shortcuts[i]]
           removed == RemoveFirst(categories_order, name)
           cats == IF /\ target_fallback_category = CAT_ILBAN
                      /\ CAT_ILBAN \notin Range(removed)
                      /\ \E i \in 1..Len(moved) : moved[i].category = CAT_ILBAN
                   THEN Append(removed, CAT_ILBAN) ELSE removed
           sv == save_data(moved, cats, global_show_window_hotkey_str, file, outcome)
       IN  /\ shortcuts' = sv.shortcuts
           /\ categories_order' = cats
           /\ file' = sv.file
    /\ save_failures' = Failures(outcome)
    /\ lastOp' = Op("delete_category", "done")
    /\ UNCHANGED <<hotkey_actions, kb, next_id, global_show_window_hotkey_str,
                   is_global_show_hotkey_registered>>
    /\ UNCHANGED hookVars

(* The tab bar of update_category_tabs(): "All", the categories, " + ". *)
TabTexts(cats) == <<ALL_CATEGORY_NAME>> \o cats \o <<ADD_CATEGORY_TAB_TEXT>>

(* QTabBar.moveTab(from, to), indices from 0. *)
MoveTab(tabs, from, to) ==
    LET without == SubSeq(tabs, 1, from) \o SubSeq(tabs, from + 2, Len(tabs))
    IN  InsertAt(without, to + 1, tabs[from + 1])

(* The tab bar after on_tab_moved has put "All" first and " + " last. *)
Restored(tabs) ==
    LET all_idx == {i \in 1..Len(tabs) : tabs[i] = ALL_CATEGORY_NAME}
        tabs1 == IF all_idx # {} /\ MaxOf(all_idx) # 1
                 THEN MoveTab(tabs, MaxOf(all_idx) - 1, 0) ELSE tabs
        add_idx == {i \in 1..Len(tabs1) : tabs1[i] = ADD_CATEGORY_TAB_TEXT}
        first_add == CHOOSE i \in add_idx : \A j \in add_idx : i <= j
    IN  IF add_idx # {} /\ first_add # Len(tabs1)
        THEN MoveTab(tabs1, first_add - 1, Len(tabs1) - 1) ELSE tabs1

(* on_tab_moved(from_index, to_index): the user has dragged a tab. *)
on_tab_moved(from, to, outcome) ==
    /\ from \in 0..(Len(categories_order) + 1)
    /\ to \in 0..(Len(categories_order) + 1)
    /\ from # to
    /\ SaveAllowed(outcome)
    /\ LET tabs == Restored(MoveTab(TabTexts(categories_order), from, to))
           new_order == SubSeq(tabs, 2, Len(tabs) - 1)
       IN  IF categories_order # new_order
           THEN LET sv == save_data(shortcuts, new_order,
                                    global_show_window_hotkey_str, file, outcome)
                IN  /\ categories_order' = new_order
                    /\ shortcuts' = sv.shortcuts
                    /\ file' = sv.file
                    /\ save_failures' = Failures(outcome)
                    /\ lastOp' = Op("tab_moved", "done")
           ELSE /\ outcome = "ok"
                /\ lastOp' = Op("tab_moved", "same")
                /\ UNCHANGED <<categories_order, shortcuts, file, save_failures>>
    /\ UNCHANGED <<hotkey_actions, kb, next_id, global_show_window_hotkey_str,
                   is_global_show_hotkey_registered>>
    /\ UNCHANGED hookVars

(* The category side, from a fresh install: records without hotkeys, the    *)
(* names a user may type for a category, every drop of a tab.               *)
CategoryNames == {CAT_GIBON, CAT_WORK, CAT_ILBAN}

NextCategory ==
    \/ \E cat \in CategoryNames : add_shortcut(NO_HOTKEY, "http://a", cat, "ok")
    \/ \E id \in 1..MaxIds, cat \in CategoryNames :
          edit_shortcut(id, NO_HOTKEY, "http://a", cat, "ok")
    \/ \E name \in CategoryNames \cup {ALL_CATEGORY_NAME, ADD_CATEGORY_TAB_TEXT} :
          add_category(name, "ok")
    \/ \E name \in CategoryNames \cup {ALL_CATEGORY_NAME, ADD_CATEGORY_TAB_TEXT} :
          delete_category_action(name, "ok")
    \/ \E id \in 1..MaxIds, cat \in CategoryNames :
          move_shortcut_to_category(id, cat, "ok")
    \/ \E from \in 0..(Cardinality(CategoryNames) + 1),
          to \in 0..(Cardinality(CategoryNames) + 1) : on_tab_moved(from, to, "ok")

SpecCategory == Init /\ [][NextCategory]_vars

NoDuplicates(s) == \A i, j \in 1..Len(s) : i # j => s[i] # s[j]

(* Every record is in a category of the list; the list has no name twice    *)
(* and no reserved name.                                                    *)
CategoryMembership ==
    /\ \A i \in 1..Len(shortcuts) : shortcuts[i].category \in Range(categories_order)
    /\ NoDuplicates(categories_order)
    /\ \A i \in 1..Len(categories_order) : NotReserved(categories_order[i])

(* C28: from a fresh install, after any sequence of add_shortcut,           *)
(* edit_shortcut, add_category, delete_category_action,                     *)
(* move_shortcut_to_category and drops of a tab, every record's category is *)
(* in categories_order, categories_order has no name twice and neither      *)
(* "All" nor " + "; the deletion of a category keeps every record, puts the *)
(* records of the deleted category into the first remaining category, or    *)
(* into "ilban" when none remains, and leaves the other records alone.      *)
C28_CategoryMembership ==
    [][/\ CategoryMembership'
       /\ \A name \in CategoryNames :
             delete_category_action(name, "ok") =>
                 /\ Ids(shortcuts') = Ids(shortcuts)
                 /\ Len(shortcuts') = Len(shortcuts)
                 /\ \A id \in Ids(shortcuts) :
                       ById(shortcuts', id) =
                           IF ById(shortcuts, id).category = name
                           THEN [ById(shortcuts, id) EXCEPT !.category =
                                    IF Len(categories_order) > 1
                                    THEN SelectSeq(categories_order,
                                                   LAMBDA c : c # name)[1]
                                    ELSE CAT_ILBAN]
                           ELSE ById(shortcuts, id)]_vars

(* The last category deleted under two records: both are in "ilban" now,    *)
(* which is the only category.                                              *)
C28_Witness ==
    /\ lastOp = Op("delete_category", "done")
    /\ categories_order = <<CAT_ILBAN>>
    /\ Len(shortcuts) = 2
    /\ \A i \in 1..Len(shortcuts) : shortcuts[i].category = CAT_ILBAN
    /\ file.exists
    /\ CAT_WORK \notin Range(file.categories_order)

----------------------------------------------------------------------------
(* The sign of the priorities and the place of a new record. *)

AllPositive(scs) == \A i \in 1..Len(scs) : scs[i].priority > 0

(* The last record of the view of a tab. *)
LastOf(scs, tab) == ViewItems(scs, tab)[Len(ViewItems(scs, tab))]

(* C29: from an empty record list, after any sequence of add_shortcut and   *)
(* drag-and-drop reorders, every priority is greater than 0; the record     *)
(* add_shortcut creates has a priority greater than that of every record    *)
(* that was there, and is the last record of the "All" view and of the view *)
(* of its category.                                                         *)
C29_PositiveAndLast ==
    [][/\ AllPositive(shortcuts')
       /\ \A cat \in {CAT_GIBON, CAT_WORK} :
             add_shortcut(NO_HOTKEY, "http://a", cat, "ok") =>
                 /\ Ids(shortcuts') = Ids(shortcuts) \cup {next_id + 1}
                 /\ \A i \in 1..Len(shortcuts) :
                       ById(shortcuts', next_id + 1).priority > shortcuts[i].priority
                 /\ LastOf(shortcuts', ALL_CATEGORY_NAME).id = next_id + 1
                 /\ LastOf(shortcuts', cat).id = next_id + 1]_vars

(* A record added after a reorder had put a record at 0.5, in the category  *)
(* of that record: the new record is the last of three.                     *)
C29_Witness ==
    /\ lastOp = Op("add", "done")
    /\ Len(shortcuts) = 3
    /\ shortcuts[1].priority = HALF
    /\ shortcuts[3].id = next_id
    /\ shortcuts[3].category = shortcuts[1].category

----------------------------------------------------------------------------
(* Closing the window. *)

(* The close that shuts the bindings down as quit_application does. *)
closeEvent_TearsDown ==
    /\ window # "hidden"
    /\ window' = "hidden"
    /\ LET u == unregister_current_global_show_window_hotkey(
                    global_show_window_hotkey_str, is_global_show_hotkey_registered, kb)
           r == UnregisterKeys(DOMAIN hotkey_actions, hotkey_actions, u.kb)
       IN  /\ is_global_show_hotkey_registered' = u.reg
           /\ hotkey_actions' = r.ha
           /\ kb' = r.kb
    /\ lastOp' = Op("close", "done")
    /\ UNCHANGED <<shortcuts, categories_order, global_show_window_hotkey_str, file,
                   next_id, save_failures>>
    /\ UNCHANGED <<now, last_global_hotkey_time, queue, executed, trig, probe>>

(* closeEvent(event): the event is ignored and the window hidden. *)
closeEvent ==
    /\ window # "hidden"
    /\ window' = "hidden"
    /\ lastOp' = Op("close", "done")
    /\ UNCHANGED dataVars
    /\ UNCHANGED <<now, last_global_hotkey_time, queue, executed, trig, probe>>

(* The window closed, toggled by the global hotkey and, in the end, the     *)
(* application quit; one record has a hotkey.                               *)
NextClose ==
    \/ Alive /\ Tick
    \/ \E i \in 1..MaxShortcuts + 1 : Alive /\ on_global_show_hotkey_triggered(i)
    \/ \E i \in 1..MaxShortcuts + 1 : Alive /\ item_callback(i)
    \/ Alive /\ execute_toggle_window_visibility_gui_thread
    \/ Alive /\ closeEvent
    \/ Alive /\ quit_application

SpecClose == InitHook /\ [][NextClose]_vars

(* The toggle handler of the global hotkey is in the backend. *)
ToggleBound(k) ==
    \E m \in 1..Len(k) : k[m] = [hk |-> global_show_window_hotkey_str, act |-> TOGGLE]

(* C30: closeEvent hides the window and nothing else: the handlers of the   *)
(* backend (the toggle's and every record's), hotkey_actions, the flag of   *)
(* the global hotkey, the records and the file are as they were; with the   *)
(* window hidden a trigger of the global hotkey outside the debounce        *)
(* interval still emits the toggle signal, and the slot of the signal then  *)
(* shows the window; of the steps of closing, toggling and quitting, only   *)
(* quit_application takes a handler out of the backend or an entry out of   *)
(* hotkey_actions.                                                          *)
C30_CloseKeepsBindings ==
    [][/\ closeEvent =>
             /\ window' = "hidden"
             /\ UNCHANGED <<kb, hotkey_actions, is_global_show_hotkey_registered,
                            global_show_window_hotkey_str, shortcuts,
                            categories_order, file>>
             /\ ToggleBound(kb')
             /\ \A i \in 1..Len(shortcuts) :
                   \E m \in 1..Len(kb') :
                       kb'[m] = [hk |-> shortcuts[i].hotkey, act |-> shortcuts[i].url]
       /\ \A i \in 1..MaxShortcuts + 1 :
             (/\ window = "hidden"
              /\ now - last_global_hotkey_time > HOTKEY_DEBOUNCE_TIME
              /\ on_global_show_hotkey_triggered(i)) => queue' = queue + 1
       /\ (window = "hidden" /\ execute_toggle_window_visibility_gui_thread)
             => window' \in {"active", "inactive"}
       /\ (window = "hidden" /\ lastOp'.op # "quit") => ToggleBound(kb')
       /\ (Len(kb') < Len(kb) \/ DOMAIN hotkey_actions' # DOMAIN hotkey_actions)
             => lastOp'.op = "quit"]_vars

(* The window closed while the toggle's handler and the record's handler    *)
(* are in the backend and the last forwarded trigger is more than the       *)
(* debounce interval ago.                                                   *)
C30_Witness ==
    /\ lastOp = Op("close", "done")
    /\ window = "hidden"
    /\ ToggleBound(kb)
    /\ HK_K \in DOMAIN hotkey_actions
    /\ Len(trig[global_show_window_hotkey_str]) = 2
    /\ now - last_global_hotkey_time > HOTKEY_DEBOUNCE_TIME

====
